---------------------------- MODULE Spec2Model ----------------------------
(***************************************************************************)
(* Model of the Visual House service worker (src/sw.js): the install,     *)
(* activate, fetch and message listeners, over the Cache Storage of the    *)
(* origin and a network whose answers are chosen by the environment.       *)
(*                                                                         *)
(* Every promise callback of a listener is one action, so that the         *)
(* asynchronous steps of different events interleave as they do on the     *)
(* worker's event loop.                                                    *)
(***************************************************************************)
EXTENDS Integers, Sequences, FiniteSets, TLC

VARIABLES
    phase,          \* lifecycle state of this generation's worker
    controller,     \* who controls the open clients: "none", "prev", "this"
    skipWaitingFlag,\* the registration's skip-waiting flag of this worker
    cacheNames,     \* names of the existing partitions, in creation order
    cacheList,      \* name -> request/response list of that partition
    inst,           \* the install listener's promise chain
    act,            \* the activate listener's promise chain
    fev,            \* the fetch events dispatched so far
    msgs,           \* the message events dispatched so far
    quota,          \* the events the pages will still cause, by kind
    page            \* the contact page: its form, button and requests

vars == <<phase, controller, skipWaitingFlag, cacheNames, cacheList,
          inst, act, fev, msgs, quota, page>>

\* the state of the worker
swvars == <<phase, controller, skipWaitingFlag, cacheNames, cacheList,
            inst, act, fev, msgs, quota>>

---------------------------------------------------------------------------
(* Bounds of the model *)

\* fetch and message events dispatched in one run that starts at install
MaxLifeEvents == 1
\* fetch and message events dispatched in one run of an activated worker
MaxEvents == 2
\* submit events of the contact form in one run of the page
MaxSubmits == 2

---------------------------------------------------------------------------
(* Configuration: sw.js lines 1-19 *)

CACHE_NAME == "visualhouse-cache-v1"
VIDEO_CACHE_NAME == "visualhouse-video-cache-v1"

\* A path is the sequence of its tokens; "/" is a token of its own, so that
\* split('/') and endsWith work on the sequence as they do on the string.
CRITICAL_ASSETS ==
    << <<"/">>,
       <<"/", "index.html">>,
       <<"/", "assets", "/", "css", "/", "styles.css">>,
       <<"/", "assets", "/", "js", "/", "main.js">>,
       <<"/", "assets", "/", "js", "/", "mobile-optimizer.js">>,
       <<"/", "assets", "/", "media", "/", "01.jpg">>,
       <<"/", "assets", "/", "media", "/", "about-hero.jpg">> >>

VIDEO_ASSETS ==
    << <<"/", "assets", "/", "media", "/", "background-video.mp4">> >>

\* location.origin of the worker, and one foreign origin
LocationOrigin == "https://visualhouse.example"
ForeignOrigin == "https://cdn.example"

\* Partitions left behind by an earlier deployment
STALE_CACHE_NAME == "visualhouse-cache-v0"
STALE_VIDEO_CACHE_NAME == "visualhouse-video-cache-v0"

AllCacheNames ==
    {CACHE_NAME, VIDEO_CACHE_NAME, STALE_CACHE_NAME, STALE_VIDEO_CACHE_NAME}

---------------------------------------------------------------------------
(* Values *)

Undefined == [kind |-> "undefined"]

\* The key under which the Cache API files a request: its URL.
Key(origin, path) == [origin |-> origin, path |-> path]

\* A string handed to addAll/match is resolved against the worker's origin.
KeyOfPath(path) == Key(LocationOrigin, path)

\* A response is identified by its status, the URL it answers and the
\* deployment of the site that produced its body.
Response(status, key) ==
    [kind |-> "response", status |-> status, url |-> key, site |-> "current"]

\* What the previous generation fetched, from the earlier deployment
PriorResponse(key) ==
    [kind |-> "response", status |-> 200, url |-> key, site |-> "earlier"]

\* What the network may answer to one fetch: a rejection or a status.
Statuses == {200, 204, 206, 301, 404, 500}
Rejected == [rejected |-> TRUE, status |-> 0]
Answered(status) == [rejected |-> FALSE, status |-> status]
NetOutcomes == {Rejected} \cup {Answered(s) : s \in Statuses}

\* A rejected promise, as the caller of respondWith sees it
Failure == [kind |-> "error"]

\* respondWith's promise while it has not settled
Pending == [kind |-> "pending"]

\* the event has made no network fetch
NotFetched == [kind |-> "none"]

\* Response.ok
IsOk(status) == status >= 200 /\ status <= 299

SeqToSet(s) == {s[i] : i \in 1..Len(s)}

RECURSIVE SelectSeqNot(_, _)
\* the entries of list whose request is not key, in order
SelectSeqNot(list, key) ==
    IF list = <<>> THEN <<>>
    ELSE IF Head(list).req = key THEN SelectSeqNot(Tail(list), key)
         ELSE <<Head(list)>> \o SelectSeqNot(Tail(list), key)

\* The requests the controlled pages issue: the two documents of the site,
\* the background video opened as a document of its own, a navigation to a
\* file whose name only ends with the video's name, and a script of another
\* origin.
Request(origin, path, destination) ==
    [origin |-> origin, path |-> path, destination |-> destination]

Requests ==
    { Request(LocationOrigin, <<"/", "index.html">>, "document"),
      Request(LocationOrigin, <<"/", "about.html">>, "document"),
      Request(LocationOrigin, VIDEO_ASSETS[1], "document"),
      Request(LocationOrigin, <<"/", "x-", "background-video.mp4">>, "document"),
      Request(ForeignOrigin, <<"/", "lib.js">>, "script") }

KeyOf(request) == Key(request.origin, request.path)

\* The messages a page posts: the two commands, with and without a reply
\* port, and a message of another type.
Messages ==
    { [type |-> "SKIP_WAITING", port |-> FALSE],
      [type |-> "CACHE_VIDEO", port |-> TRUE],
      [type |-> "CACHE_VIDEO", port |-> FALSE],
      [type |-> "OTHER", port |-> FALSE] }

---------------------------------------------------------------------------
(* The Cache API, as the worker uses it *)

HasCache(names, name) == \E i \in 1..Len(names) : names[i] = name

\* caches.open(name): creates the partition when it does not exist
CachesOpenNames(names, name) ==
    IF HasCache(names, name) THEN names ELSE Append(names, name)

\* cache.match(request): the first entry filed under the request's URL
CacheMatch(list, key) ==
    IF \E i \in 1..Len(list) : list[i].req = key
    THEN list[CHOOSE i \in 1..Len(list) :
                 /\ list[i].req = key
                 /\ \A j \in 1..(i-1) : list[j].req # key].resp
    ELSE Undefined

RECURSIVE CachesMatchFrom(_, _, _, _)
\* caches.match(request): the partitions are searched in creation order
CachesMatchFrom(names, lists, key, i) ==
    IF i > Len(names) THEN Undefined
    ELSE IF CacheMatch(lists[names[i]], key) # Undefined
         THEN CacheMatch(lists[names[i]], key)
         ELSE CachesMatchFrom(names, lists, key, i + 1)

CachesMatch(names, lists, key) == CachesMatchFrom(names, lists, key, 1)

\* cache.put(request, response): replaces the entry of that URL
CachePut(list, key, resp, by) ==
    Append(SelectSeqNot(list, key), [req |-> key, resp |-> resp, by |-> by])

RECURSIVE CachePutAll(_, _, _, _)
\* the batch of puts with which addAll commits its responses
CachePutAll(list, paths, outcome, by) ==
    IF paths = <<>> THEN list
    ELSE CachePutAll(
            CachePut(list, KeyOfPath(Head(paths)),
                     Response(outcome[Head(paths)].status, KeyOfPath(Head(paths))), by),
            Tail(paths), outcome, by)

\* addAll rejects unless every response is ok and none is a 206
AddAllAccepts(paths, outcome) ==
    \A p \in SeqToSet(paths) :
        /\ ~outcome[p].rejected
        /\ IsOk(outcome[p].status)
        /\ outcome[p].status # 206

\* The requests of one addAll that may get anything but a 200: none, or
\* any single one (one unacceptable answer already rejects the batch).
FaultyRequests(paths) == {{}} \cup {{p} : p \in SeqToSet(paths)}

\* The network answers one addAll may meet.
AddAllOutcomes(paths) ==
    UNION { { [p \in SeqToSet(paths) |-> IF p \in F THEN g[p] ELSE Answered(200)] :
                g \in [F -> NetOutcomes \ {Answered(200)}] } :
            F \in FaultyRequests(paths) }

\* The storage may refuse the batch of puts (quota), which matters only
\* when every answer was acceptable.
StoreOutcomes(paths, outcome) ==
    IF AddAllAccepts(paths, outcome) THEN BOOLEAN ELSE {TRUE}

\* caches.delete(name)
CachesDeleteNames(names, name) == SelectSeq(names, LAMBDA n : n # name)

---------------------------------------------------------------------------
(* The contact page: main.js lines 88-150 *)

\* What a field of the form may hold: nothing or a text
FieldValues == {"", "text"}
FieldNames == {"name", "email", "message"}

\* the label the markup gives the submit button, and the loading label of
\* line 115
OriginalLabel == "original"
SendingLabel == "<span>Sending...</span>"

\* document.body.style.overflow: the empty string while no listener has
\* assigned it, then one of the two values of lines 9-11, 19, 28 and 36
OverflowUnset == ""
OverflowValues == {OverflowUnset, "hidden", "auto"}

\* the events the navigation listeners of lines 6-38 receive: a click on the
\* toggle, a click whose target is the menu element itself (its overlay) or
\* an element inside it that is no link, a key press, a click on a link
NavEvents == {"toggle", "overlay", "inside", "escape", "key", "link"}

\* the page as loaded: an empty form, the button as in the markup, no
\* request made, no alert or dialog shown; the menu closed (neither
\* .nav-toggle nor .nav-menu carries the class "active"), no inline overflow
\* on the body. navEvent, navActed and lastNav record what the visitor has
\* done: whether a toggle click, overlay click, Escape press or link click
\* occurred, whether one of them ran an assignment to the overflow, and the
\* last event received.
PageLoaded ==
    [fields |-> [f \in FieldNames |-> ""],
     label |-> OriginalLabel, disabled |-> FALSE,
     reqs |-> <<>>, alerts |-> 0, dialogs |-> 0, submits |-> 0,
     navToggle |-> FALSE, navMenu |-> FALSE, overflow |-> OverflowUnset,
     navEvent |-> FALSE, navActed |-> FALSE, lastNav |-> "none"]

\* !value of line 105: the empty string is the only falsy string
Falsy(value) == value = ""

\* every field is accepted
FormInvalidNever(formObject) == FALSE

\* line 105
FormInvalid(formObject) ==
    Falsy(formObject["name"]) \/ Falsy(formObject["email"]) \/ Falsy(formObject["message"])

\* the visitor edits a field
EditField(f, v) ==
    /\ page.fields[f] # v
    /\ page' = [page EXCEPT !.fields[f] = v]
    /\ UNCHANGED swvars

\* lines 92-125: the submit listener up to the call of fetch
Submit ==
    /\ page.submits < MaxSubmits
    /\ LET formObject == page.fields IN
          IF FormInvalid(formObject)
          THEN page' = [page EXCEPT !.alerts = @ + 1, !.submits = @ + 1]
          ELSE page' = [page EXCEPT
                          !.submits = @ + 1,
                          !.label = SendingLabel,
                          !.disabled = TRUE,
                          !.reqs = Append(@, [body |-> formObject,
                                              originalText |-> page.label,
                                              pc |-> "fetch"])]
    /\ UNCHANGED swvars

\* what the service may answer: ok, not ok, or no answer at all
FormOutcomes == {"ok", "notok", "rejected"}

\* lines 126-145: the request settles and the then, catch and finally
\* callbacks run one after the other
FormSettles(r, outcome) ==
    /\ r \in 1..Len(page.reqs) /\ page.reqs[r].pc = "fetch"
    /\ page' = [page EXCEPT
                   !.reqs[r].pc = outcome,
                   !.dialogs = IF outcome = "ok" THEN @ + 1 ELSE @,
                   !.fields = IF outcome = "ok" THEN [f \in FieldNames |-> ""] ELSE @,
                   !.alerts = IF outcome = "ok" THEN @ ELSE @ + 1,
                   !.label = page.reqs[r].originalText,
                   !.disabled = FALSE]
    /\ UNCHANGED swvars

\* lines 6-12: a click on the toggle flips the class on both elements and
\* sets the overflow from the menu's new class
ToggleClick ==
    /\ LET active == ~page.navMenu IN
          page' = [page EXCEPT
                     !.navToggle = ~@,
                     !.navMenu = active,
                     !.overflow = IF active THEN "hidden" ELSE "auto",
                     !.navEvent = TRUE, !.navActed = TRUE,
                     !.lastNav = "toggle"]
    /\ UNCHANGED swvars

\* lines 15-21: a click inside the menu closes it when its target is the
\* menu element itself
MenuClick(target) ==
    /\ target \in {"overlay", "inside"}
    /\ page' = IF target = "overlay"
               THEN [page EXCEPT
                       !.navToggle = FALSE, !.navMenu = FALSE,
                       !.overflow = "auto",
                       !.navEvent = TRUE, !.navActed = TRUE,
                       !.lastNav = target]
               ELSE [page EXCEPT !.lastNav = target]
    /\ UNCHANGED swvars

\* the Escape listener closes the menu and leaves the overflow as it was
KeyDownKeepsOverflow(key) ==
    /\ key \in {"escape", "key"}
    /\ page' = IF key = "escape" /\ page.navMenu
               THEN [page EXCEPT
                       !.navToggle = FALSE, !.navMenu = FALSE,
                       !.navEvent = TRUE, !.navActed = TRUE,
                       !.lastNav = key]
               ELSE [page EXCEPT !.navEvent = @ \/ key = "escape",
                                 !.lastNav = key]
    /\ UNCHANGED swvars

\* lines 24-30: Escape closes the menu when it is open; any other key, and
\* Escape with the menu closed, changes nothing
KeyDown(key) ==
    /\ key \in {"escape", "key"}
    /\ page' = IF key = "escape" /\ page.navMenu
               THEN [page EXCEPT
                       !.navToggle = FALSE, !.navMenu = FALSE,
                       !.overflow = "auto",
                       !.navEvent = TRUE, !.navActed = TRUE,
                       !.lastNav = key]
               ELSE [page EXCEPT !.navEvent = @ \/ key = "escape",
                                 !.lastNav = key]
    /\ UNCHANGED swvars

\* lines 32-38: a click on a link of the menu closes it; the click then
\* reaches the menu's listener with the link as its target, which does
\* nothing
LinkClick ==
    /\ page' = [page EXCEPT
                   !.navToggle = FALSE, !.navMenu = FALSE,
                   !.overflow = "auto",
                   !.navEvent = TRUE, !.navActed = TRUE,
                   !.lastNav = "link"]
    /\ UNCHANGED swvars

---------------------------------------------------------------------------
(* Initial state: the worker script has been evaluated, its listeners are  *)
(* registered and the install event is about to be dispatched.             *)

PriorEntry(path) ==
    [req |-> KeyOfPath(path), resp |-> PriorResponse(KeyOfPath(path)),
     by |-> "prior"]

NoLists == [n \in AllCacheNames |-> <<>>]

\* The Cache Storage the new generation may find: nothing (first visit), or
\* the two stale partitions of an earlier deployment beside a general
\* partition that an earlier worker of the same names has filled.
PriorStorage ==
    { [names |-> <<>>, lists |-> NoLists],
      [names |-> <<STALE_CACHE_NAME, STALE_VIDEO_CACHE_NAME, CACHE_NAME>>,
       lists |-> [NoLists EXCEPT
                    ![STALE_CACHE_NAME] = <<PriorEntry(<<"/", "index.html">>)>>,
                    ![STALE_VIDEO_CACHE_NAME] = <<PriorEntry(VIDEO_ASSETS[1])>>,
                    ![CACHE_NAME] = <<PriorEntry(<<"/", "index.html">>)>>]] }

\* The events the pages cause in one run, split between the two kinds
Quotas(n) == {q \in [fetch : 0..n, msg : 0..n] : q.fetch + q.msg = n}

Init ==
    /\ phase = "installing"
    /\ \E s \in PriorStorage :
          /\ cacheNames = s.names
          /\ cacheList = s.lists
          /\ controller = IF s.names = <<>> THEN "none" ELSE "prev"
          /\ inst = [pc |-> "open", promise |-> "pending", failedAt |-> "none",
                     logged |-> FALSE, skipCalled |-> FALSE,
                     before |-> s.lists[CACHE_NAME]]
    /\ skipWaitingFlag = FALSE
    /\ act = [pc |-> "idle", promise |-> "pending", pending |-> {},
              deleted |-> {}, failed |-> FALSE, claimed |-> FALSE]
    /\ fev = <<>>
    /\ msgs = <<>>
    /\ quota \in Quotas(MaxLifeEvents)
    /\ page = PageLoaded

---------------------------------------------------------------------------
(* install listener: sw.js lines 22-37 *)

\* line 24: caches.open(CACHE_NAME); the storage may refuse
InstallOpen ==
    /\ phase = "installing" /\ inst.pc = "open"
    /\ \E ok \in BOOLEAN :
          IF ok
          THEN /\ cacheNames' = CachesOpenNames(cacheNames, CACHE_NAME)
               /\ inst' = [inst EXCEPT !.pc = "addAll"]
          ELSE /\ cacheNames' = cacheNames
               /\ inst' = [inst EXCEPT !.pc = "catch", !.failedAt = "open"]
    /\ UNCHANGED <<phase, controller, skipWaitingFlag, cacheList, act, fev,
                   msgs, quota, page>>

\* every acceptable response is stored on its own, as a loop of cache.add
\* would do
InstallAddAllOneByOne(list, outcome, storeOk) ==
    [ok |-> AddAllAccepts(CRITICAL_ASSETS, outcome) /\ storeOk,
     list |-> CachePutAll(list,
                 SelectSeq(CRITICAL_ASSETS,
                           LAMBDA p : AddAllAccepts(<<p>>, [q \in {p} |-> outcome[p]])),
                 outcome, "install")]

\* lines 25-28: cache.addAll(CRITICAL_ASSETS): all responses are fetched,
\* and only when every one is acceptable are they committed, together
InstallAddAllResult(list, outcome, storeOk) ==
    IF AddAllAccepts(CRITICAL_ASSETS, outcome) /\ storeOk
    THEN [ok |-> TRUE, list |-> CachePutAll(list, CRITICAL_ASSETS, outcome, "install")]
    ELSE [ok |-> FALSE, list |-> list]

InstallAddAll ==
    /\ phase = "installing" /\ inst.pc = "addAll"
    /\ \E outcome \in AddAllOutcomes(CRITICAL_ASSETS) :
       \E storeOk \in StoreOutcomes(CRITICAL_ASSETS, outcome) :
          LET r == InstallAddAllResult(cacheList[CACHE_NAME], outcome, storeOk) IN
          /\ cacheList' = [cacheList EXCEPT ![CACHE_NAME] = r.list]
          /\ inst' = IF r.ok THEN [inst EXCEPT !.pc = "then"]
                     ELSE [inst EXCEPT !.pc = "catch", !.failedAt = "addAll"]
    /\ UNCHANGED <<phase, controller, skipWaitingFlag, cacheNames, act, fev,
                   msgs, quota, page>>

\* the stale general partition is deleted as soon as the assets are cached
InstallThenPurges ==
    /\ phase = "installing" /\ inst.pc = "then"
    /\ skipWaitingFlag' = TRUE
    /\ cacheNames' = CachesDeleteNames(cacheNames, STALE_CACHE_NAME)
    /\ cacheList' = [cacheList EXCEPT ![STALE_CACHE_NAME] = <<>>]
    /\ inst' = [inst EXCEPT !.pc = "settled", !.promise = "fulfilled",
                            !.skipCalled = TRUE]
    /\ UNCHANGED <<phase, controller, act, fev, msgs, quota, page>>

\* lines 29-32: self.skipWaiting(), whose promise fulfils the chain
InstallThen ==
    /\ phase = "installing" /\ inst.pc = "then"
    /\ skipWaitingFlag' = TRUE
    /\ inst' = [inst EXCEPT !.pc = "settled", !.promise = "fulfilled",
                            !.skipCalled = TRUE]
    /\ UNCHANGED <<phase, controller, cacheNames, cacheList, act, fev, msgs, quota,
                   page>>

\* lines 33-35: the catch callback logs and returns nothing, so the promise
\* it yields is fulfilled
InstallCatchPromise == "fulfilled"

\* the catch callback logs and goes on to self.skipWaiting()
InstallCatchSkips ==
    /\ phase = "installing" /\ inst.pc = "catch"
    /\ skipWaitingFlag' = TRUE
    /\ inst' = [inst EXCEPT !.pc = "settled", !.promise = "fulfilled",
                            !.logged = TRUE, !.skipCalled = TRUE]
    /\ UNCHANGED <<phase, controller, cacheNames, cacheList, act, fev, msgs,
                   quota, page>>

InstallCatch ==
    /\ phase = "installing" /\ inst.pc = "catch"
    /\ inst' = [inst EXCEPT !.pc = "settled", !.promise = InstallCatchPromise,
                            !.logged = TRUE]
    /\ UNCHANGED <<phase, controller, skipWaitingFlag, cacheNames, cacheList,
                   act, fev, msgs, quota, page>>

\* The hosting environment, once the promise given to waitUntil (line 23)
\* has settled: a rejection makes the worker redundant, otherwise it is
\* installed and waits.
InstallSettled ==
    /\ phase = "installing" /\ inst.pc = "settled"
    /\ phase' = IF inst.promise = "rejected" THEN "redundant" ELSE "installed"
    /\ inst' = [inst EXCEPT !.pc = "done"]
    /\ UNCHANGED <<controller, skipWaitingFlag, cacheNames, cacheList, act,
                   fev, msgs, quota, page>>

---------------------------------------------------------------------------
(* The hosting environment between install and activate *)

\* The clients of the previous generation close.
OldClientsClose ==
    /\ phase = "installed" /\ controller = "prev"
    /\ controller' = "none"
    /\ UNCHANGED <<phase, skipWaitingFlag, cacheNames, cacheList, inst, act,
                   fev, msgs, quota, page>>

\* An installed worker is activated once no client uses the previous
\* generation or the skip-waiting flag is set.  The clients the previous
\* generation controlled are handed over before the event is dispatched.
ActivateDispatch ==
    /\ phase = "installed"
    /\ controller # "prev" \/ skipWaitingFlag
    /\ phase' = "activating"
    /\ controller' = IF controller = "prev" THEN "this" ELSE controller
    /\ act' = [act EXCEPT !.pc = "keys"]
    /\ UNCHANGED <<skipWaitingFlag, cacheNames, cacheList, inst, fev, msgs, quota,
                   page>>

---------------------------------------------------------------------------
(* activate listener: sw.js lines 40-56 *)

\* the video partition is not spared
IsStaleNameForgetsVideo(cacheName) == cacheName # CACHE_NAME

\* the general partition is not spared
IsStaleNameForgetsGeneral(cacheName) == cacheName # VIDEO_CACHE_NAME

\* line 45: the partitions the map callback deletes
IsStaleName(cacheName) ==
    cacheName # CACHE_NAME /\ cacheName # VIDEO_CACHE_NAME

\* lines 42-50: caches.keys(), then one caches.delete per stale name, all
\* started together under Promise.all
ActivateKeys ==
    /\ phase = "activating" /\ act.pc = "keys"
    /\ act' = [act EXCEPT
                 !.pc = "all",
                 !.pending = {n \in SeqToSet(cacheNames) : IsStaleName(n)}]
    /\ UNCHANGED <<phase, controller, skipWaitingFlag, cacheNames, cacheList,
                   inst, fev, msgs, quota, page>>

\* line 47: one caches.delete(cacheName) settles; the storage may refuse
ActivateDelete(n) ==
    /\ n \in act.pending
    /\ \E ok \in BOOLEAN :
          IF ok
          THEN /\ cacheNames' = CachesDeleteNames(cacheNames, n)
               /\ cacheList' = [cacheList EXCEPT ![n] = <<>>]
               /\ act' = [act EXCEPT !.pending = @ \ {n},
                                     !.deleted = @ \cup {n}]
          ELSE /\ UNCHANGED <<cacheNames, cacheList>>
               /\ act' = [act EXCEPT !.pending = @ \ {n}, !.failed = TRUE]
    /\ UNCHANGED <<phase, controller, skipWaitingFlag, inst, fev, msgs, quota,
                   page>>

\* line 43: Promise.all rejects with the first rejection; nothing catches it
ActivateAllRejected ==
    /\ phase = "activating" /\ act.pc = "all" /\ act.failed
    /\ act' = [act EXCEPT !.pc = "settled", !.promise = "rejected"]
    /\ UNCHANGED <<phase, controller, skipWaitingFlag, cacheNames, cacheList,
                   inst, fev, msgs, quota, page>>

\* the clients are claimed without waiting for the deletions
ActivateThenAtOnce ==
    /\ phase = "activating" /\ act.pc = "all"
    /\ controller' = "this"
    /\ act' = [act EXCEPT !.pc = "settled", !.promise = "fulfilled",
                          !.claimed = TRUE]
    /\ UNCHANGED <<phase, skipWaitingFlag, cacheNames, cacheList, inst, fev,
                   msgs, quota, page>>

\* lines 51-54: once every deletion has succeeded, self.clients.claim()
ActivateThen ==
    /\ phase = "activating" /\ act.pc = "all"
    /\ act.pending = {} /\ ~act.failed
    /\ controller' = "this"
    /\ act' = [act EXCEPT !.pc = "settled", !.promise = "fulfilled",
                          !.claimed = TRUE]
    /\ UNCHANGED <<phase, skipWaitingFlag, cacheNames, cacheList, inst, fev,
                   msgs, quota, page>>

\* The hosting environment, once the promise given to waitUntil (line 41)
\* has settled: the worker is activated whatever the outcome.
ActivateSettled ==
    /\ phase = "activating" /\ act.pc = "settled"
    /\ phase' = "activated"
    /\ act' = [act EXCEPT !.pc = "done"]
    /\ UNCHANGED <<controller, skipWaitingFlag, cacheNames, cacheList, inst,
                   fev, msgs, quota, page>>

---------------------------------------------------------------------------
(* fetch listener: sw.js lines 59-128 *)

RECURSIVE LastSegmentFrom(_, _)
LastSegmentFrom(path, i) ==
    IF i = 0 \/ path[i] = "/" THEN SubSeq(path, i + 1, Len(path))
    ELSE LastSegmentFrom(path, i - 1)

\* asset.split('/').pop()
LastSegment(path) == LastSegmentFrom(path, Len(path))

\* String.prototype.endsWith
EndsWith(path, suffix) ==
    /\ Len(suffix) <= Len(path)
    /\ SubSeq(path, Len(path) - Len(suffix) + 1, Len(path)) = suffix

\* line 63
IsVideoRequest(path) ==
    \E k \in 1..Len(VIDEO_ASSETS) : EndsWith(path, LastSegment(VIDEO_ASSETS[k]))

\* A page of the scope loaded after activation is controlled by the worker.
ClientLoads ==
    /\ phase = "activated" /\ controller # "this"
    /\ controller' = "this"
    /\ UNCHANGED <<phase, skipWaitingFlag, cacheNames, cacheList, inst, act,
                   fev, msgs, quota, page>>

\* lines 59-64, 94: the event is dispatched and the listener chooses its
\* branch; respondWith receives the promise of that branch
FetchDispatch(request) ==
    /\ phase = "activated" /\ controller = "this"
    /\ quota.fetch > 0
    /\ fev' = Append(fev,
                [req |-> request,
                 branch |-> IF IsVideoRequest(request.path) THEN "video" ELSE "general",
                 pc |-> IF IsVideoRequest(request.path) THEN "vopen" ELSE "gmatch",
                 lookup |-> "pending", net |-> NotFetched, nfetch |-> 0,
                 out |-> Pending, bg |-> "none", nput |-> 0, logged |-> FALSE,
                 answeredBefore |-> {j \in 1..Len(fev) :
                                       fev[j].req = request /\ fev[j].out # Pending},
                 storedBefore |-> {j \in 1..Len(fev) :
                                     fev[j].req = request /\ fev[j].bg = "stored"}])
    /\ quota' = [quota EXCEPT !.fetch = @ - 1]
    /\ UNCHANGED <<phase, controller, skipWaitingFlag, cacheNames, cacheList,
                   inst, act, msgs, page>>

\* line 65: caches.open(VIDEO_CACHE_NAME)
VideoOpen(i) ==
    /\ i \in 1..Len(fev) /\ fev[i].pc = "vopen"
    /\ \E ok \in BOOLEAN :
          IF ok
          THEN /\ cacheNames' = CachesOpenNames(cacheNames, VIDEO_CACHE_NAME)
               /\ fev' = [fev EXCEPT ![i].pc = "vmatch"]
          ELSE /\ cacheNames' = cacheNames
               /\ fev' = [fev EXCEPT ![i].pc = "done", ![i].out = Failure]
    /\ UNCHANGED <<phase, controller, skipWaitingFlag, cacheList, inst, act,
                   msgs, quota, page>>

\* lines 67-72: cache.match(event.request) in the video partition
VideoMatch(i) ==
    /\ i \in 1..Len(fev) /\ fev[i].pc = "vmatch"
    /\ LET response == CacheMatch(cacheList[VIDEO_CACHE_NAME], KeyOf(fev[i].req)) IN
          fev' = IF response # Undefined
                 THEN [fev EXCEPT ![i].pc = "done", ![i].out = response,
                                  ![i].lookup = "hit"]
                 ELSE [fev EXCEPT ![i].pc = "vfetch", ![i].lookup = "miss"]
    /\ UNCHANGED <<phase, controller, skipWaitingFlag, cacheNames, cacheList,
                   inst, act, msgs, quota, page>>

\* the status is not tested
ShouldCacheVideoAlways(response) == TRUE

\* line 78
ShouldCacheVideo(response) == response.status = 200

\* lines 79-81: cache.put is started and its promise dropped; the response
\* is returned at once
VideoAfterFetch(f, response) ==
    [f EXCEPT !.pc = "done", !.out = response,
              !.bg = IF ShouldCacheVideo(response) THEN "put" ELSE "none",
              !.nput = IF ShouldCacheVideo(response) THEN @ + 1 ELSE @]

\* a rejected fetch of a document is answered like the general branch does
VideoFetchFallsBack(i) ==
    /\ i \in 1..Len(fev) /\ fev[i].pc = "vfetch"
    /\ \E o \in NetOutcomes :
          IF o.rejected
          THEN fev' = [fev EXCEPT ![i].pc = "done", ![i].net = o,
                                  ![i].nfetch = @ + 1,
                                  ![i].out = IF fev[i].req.destination = "document"
                                             THEN CachesMatch(cacheNames, cacheList,
                                                      KeyOfPath(<<"/", "index.html">>))
                                             ELSE Failure,
                                  ![i].logged = TRUE]
          ELSE fev' = [fev EXCEPT ![i] =
                         VideoAfterFetch([fev[i] EXCEPT !.net = o, !.nfetch = @ + 1],
                                         Response(o.status, KeyOf(fev[i].req)))]
    /\ UNCHANGED <<phase, controller, skipWaitingFlag, cacheNames, cacheList,
                   inst, act, msgs, quota, page>>

\* lines 75-86: fetch(event.request) and the callbacks on it
VideoFetch(i) ==
    /\ i \in 1..Len(fev) /\ fev[i].pc = "vfetch"
    /\ \E o \in NetOutcomes :
          IF o.rejected
          THEN fev' = [fev EXCEPT ![i].pc = "done", ![i].net = o,
                                  ![i].nfetch = @ + 1,
                                  ![i].out = Failure, ![i].logged = TRUE]
          ELSE fev' = [fev EXCEPT ![i] =
                         VideoAfterFetch([fev[i] EXCEPT !.net = o, !.nfetch = @ + 1],
                                         Response(o.status, KeyOf(fev[i].req)))]
    /\ UNCHANGED <<phase, controller, skipWaitingFlag, cacheNames, cacheList,
                   inst, act, msgs, quota, page>>

\* a hit is noted and the network is asked all the same
GeneralMatchRevalidates(i) ==
    /\ i \in 1..Len(fev) /\ fev[i].pc = "gmatch"
    /\ LET response == CachesMatch(cacheNames, cacheList, KeyOf(fev[i].req)) IN
          fev' = [fev EXCEPT ![i].pc = "gfetch",
                             ![i].lookup = IF response # Undefined THEN "hit"
                                           ELSE "miss"]
    /\ UNCHANGED <<phase, controller, skipWaitingFlag, cacheNames, cacheList,
                   inst, act, msgs, quota, page>>

\* line 95: caches.match(event.request), over all partitions
GeneralMatch(i) ==
    /\ i \in 1..Len(fev) /\ fev[i].pc = "gmatch"
    /\ LET response == CachesMatch(cacheNames, cacheList, KeyOf(fev[i].req)) IN
          fev' = IF response # Undefined
                 THEN [fev EXCEPT ![i].pc = "done", ![i].out = response,
                                  ![i].lookup = "hit"]
                 ELSE [fev EXCEPT ![i].pc = "gfetch", ![i].lookup = "miss"]
    /\ UNCHANGED <<phase, controller, skipWaitingFlag, cacheNames, cacheList,
                   inst, act, msgs, quota, page>>

\* the origin is not tested
ShouldCacheGeneralAnyOrigin(response, request) == response.status = 200

\* the status is not tested
ShouldCacheGeneralAnyStatus(response, request) == request.origin = LocationOrigin

\* line 107
ShouldCacheGeneral(response, request) ==
    response.status = 200 /\ request.origin = LocationOrigin

\* lines 108-114: the store is started in the background (caches.open, then
\* put, neither awaited) and the response is returned at once
GeneralAfterFetch(f, response) ==
    [f EXCEPT !.pc = "done", !.out = response,
              !.bg = IF ShouldCacheGeneral(response, f.req) THEN "open" ELSE "none",
              !.nput = IF ShouldCacheGeneral(response, f.req) THEN @ + 1 ELSE @]

\* lines 104-115: fetch(event.request) and the callback on it; a rejection
\* goes to the catch of line 117
GeneralFetch(i) ==
    /\ i \in 1..Len(fev) /\ fev[i].pc = "gfetch"
    /\ \E o \in NetOutcomes :
          fev' = IF o.rejected
                 THEN [fev EXCEPT ![i].pc = "gcatch", ![i].net = o,
                                  ![i].nfetch = @ + 1]
                 ELSE [fev EXCEPT ![i] =
                         GeneralAfterFetch([fev[i] EXCEPT !.net = o, !.nfetch = @ + 1],
                                           Response(o.status, KeyOf(fev[i].req)))]
    /\ UNCHANGED <<phase, controller, skipWaitingFlag, cacheNames, cacheList,
                   inst, act, msgs, quota, page>>

\* the destination is not tested
WantsFallbackAlways(request) == TRUE

\* line 121
WantsFallback(request) == request.destination = "document"

\* lines 117-126: the error is logged; a document request goes on to
\* caches.match('/index.html'), any other rethrows
GeneralCatch(i) ==
    /\ i \in 1..Len(fev) /\ fev[i].pc = "gcatch"
    /\ fev' = IF WantsFallback(fev[i].req)
              THEN [fev EXCEPT ![i].pc = "gfallback", ![i].logged = TRUE]
              ELSE [fev EXCEPT ![i].pc = "done", ![i].out = Failure,
                               ![i].logged = TRUE]
    /\ UNCHANGED <<phase, controller, skipWaitingFlag, cacheNames, cacheList,
                   inst, act, msgs, quota, page>>

\* line 122: caches.match('/index.html'), over all partitions
FallbackLookup(names, lists) ==
    CachesMatch(names, lists, KeyOfPath(<<"/", "index.html">>))

\* an empty lookup is turned into the original failure
GeneralFallbackRethrows(i) ==
    /\ i \in 1..Len(fev) /\ fev[i].pc = "gfallback"
    /\ fev' = [fev EXCEPT ![i].pc = "done",
                          ![i].out = IF FallbackLookup(cacheNames, cacheList) = Undefined
                                     THEN Failure
                                     ELSE FallbackLookup(cacheNames, cacheList)]
    /\ UNCHANGED <<phase, controller, skipWaitingFlag, cacheNames, cacheList,
                   inst, act, msgs, quota, page>>

\* line 122: what the lookup yields is what respondWith receives
GeneralFallback(i) ==
    /\ i \in 1..Len(fev) /\ fev[i].pc = "gfallback"
    /\ fev' = [fev EXCEPT ![i].pc = "done",
                          ![i].out = FallbackLookup(cacheNames, cacheList)]
    /\ UNCHANGED <<phase, controller, skipWaitingFlag, cacheNames, cacheList,
                   inst, act, msgs, quota, page>>

\* lines 109-110: the background caches.open(CACHE_NAME) settles
BackgroundOpen(i) ==
    /\ i \in 1..Len(fev) /\ fev[i].bg = "open"
    /\ \E ok \in BOOLEAN :
          IF ok
          THEN /\ cacheNames' = CachesOpenNames(cacheNames, CACHE_NAME)
               /\ fev' = [fev EXCEPT ![i].bg = "put"]
          ELSE /\ cacheNames' = cacheNames
               /\ fev' = [fev EXCEPT ![i].bg = "failed"]
    /\ UNCHANGED <<phase, controller, skipWaitingFlag, cacheList, inst, act,
                   msgs, quota, page>>

\* lines 79 and 111: where the branch stores its copy
StoreTarget(branch) ==
    IF branch = "video" THEN VIDEO_CACHE_NAME ELSE CACHE_NAME

\* the copy is added beside whatever the partition holds for the request
BackgroundPutAppends(i) ==
    /\ i \in 1..Len(fev) /\ fev[i].bg = "put"
    /\ cacheList' =
          [cacheList EXCEPT ![StoreTarget(fev[i].branch)] =
              Append(@, [req |-> KeyOf(fev[i].req),
                         resp |-> Response(fev[i].net.status, KeyOf(fev[i].req)),
                         by |-> "fetch"])]
    /\ fev' = [fev EXCEPT ![i].bg = "stored"]
    /\ UNCHANGED <<phase, controller, skipWaitingFlag, cacheNames, inst, act,
                   msgs, quota, page>>

\* lines 79 and 111: the background cache.put settles; the storage may
\* refuse, and nothing in the listener observes the outcome
BackgroundPut(i) ==
    /\ i \in 1..Len(fev) /\ fev[i].bg = "put"
    /\ \E ok \in BOOLEAN :
          IF ok
          THEN /\ cacheList' =
                    [cacheList EXCEPT ![StoreTarget(fev[i].branch)] =
                        CachePut(@, KeyOf(fev[i].req),
                                 Response(fev[i].net.status, KeyOf(fev[i].req)),
                                 "fetch")]
               /\ fev' = [fev EXCEPT ![i].bg = "stored"]
          ELSE /\ cacheList' = cacheList
               /\ fev' = [fev EXCEPT ![i].bg = "failed"]
    /\ UNCHANGED <<phase, controller, skipWaitingFlag, cacheNames, inst, act,
                   msgs, quota, page>>

---------------------------------------------------------------------------
(* message listener: sw.js lines 131-150 *)

\* no message type is recognised
CallsSkipWaitingNever(data) == FALSE

\* line 132: event.data && event.data.type === 'SKIP_WAITING'
CallsSkipWaiting(data) == data.type = "SKIP_WAITING"

\* lines 131-137: the listener runs; SKIP_WAITING sets the flag at once,
\* CACHE_VIDEO starts the warm chain
MessageDispatch(m) ==
    /\ phase # "redundant"
    /\ quota.msg > 0
    /\ quota' = [quota EXCEPT !.msg = @ - 1]
    /\ skipWaitingFlag' = (skipWaitingFlag \/ CallsSkipWaiting(m))
    /\ msgs' = Append(msgs,
                 [type |-> m.type, port |-> m.port,
                  pc |-> IF m.type = "CACHE_VIDEO" THEN "open" ELSE "done",
                  added |-> FALSE, replies |-> <<>>, logged |-> FALSE,
                  unhandled |-> FALSE])
    /\ UNCHANGED <<phase, controller, cacheNames, cacheList, inst, act, fev,
                   page>>

\* line 138: caches.open(VIDEO_CACHE_NAME)
WarmOpen(k) ==
    /\ k \in 1..Len(msgs) /\ msgs[k].pc = "open"
    /\ \E ok \in BOOLEAN :
          IF ok
          THEN /\ cacheNames' = CachesOpenNames(cacheNames, VIDEO_CACHE_NAME)
               /\ msgs' = [msgs EXCEPT ![k].pc = "addAll"]
          ELSE /\ cacheNames' = cacheNames
               /\ msgs' = [msgs EXCEPT ![k].pc = "catch"]
    /\ UNCHANGED <<phase, controller, skipWaitingFlag, cacheList, inst, act,
                   fev, quota, page>>

\* the fetched responses are appended without replacing what is there
WarmAddAllAppends(list, outcome, storeOk) ==
    IF AddAllAccepts(VIDEO_ASSETS, outcome) /\ storeOk
    THEN [ok |-> TRUE,
          list |-> list \o CachePutAll(<<>>, VIDEO_ASSETS, outcome, "warm")]
    ELSE [ok |-> FALSE, list |-> list]

\* lines 139-141: cache.addAll(VIDEO_ASSETS)
WarmAddAllResult(list, outcome, storeOk) ==
    IF AddAllAccepts(VIDEO_ASSETS, outcome) /\ storeOk
    THEN [ok |-> TRUE, list |-> CachePutAll(list, VIDEO_ASSETS, outcome, "warm")]
    ELSE [ok |-> FALSE, list |-> list]

WarmAddAll(k) ==
    /\ k \in 1..Len(msgs) /\ msgs[k].pc = "addAll"
    /\ \E outcome \in AddAllOutcomes(VIDEO_ASSETS) :
       \E storeOk \in StoreOutcomes(VIDEO_ASSETS, outcome) :
          LET r == WarmAddAllResult(cacheList[VIDEO_CACHE_NAME], outcome, storeOk) IN
          /\ cacheList' = [cacheList EXCEPT ![VIDEO_CACHE_NAME] = r.list]
          /\ msgs' = IF r.ok
                     THEN [msgs EXCEPT ![k].pc = "then", ![k].added = TRUE]
                     ELSE [msgs EXCEPT ![k].pc = "catch"]
    /\ UNCHANGED <<phase, controller, skipWaitingFlag, cacheNames, inst, act,
                   fev, quota, page>>

\* line 143: event.ports[0].postMessage({ success: true }); without a port
\* ports[0] is undefined and the call throws into the catch of line 145
WarmThen(k) ==
    /\ k \in 1..Len(msgs) /\ msgs[k].pc = "then"
    /\ msgs' = IF msgs[k].port
               THEN [msgs EXCEPT ![k].pc = "done",
                                 ![k].replies = Append(@, [success |-> TRUE])]
               ELSE [msgs EXCEPT ![k].pc = "catch"]
    /\ UNCHANGED <<phase, controller, skipWaitingFlag, cacheNames, cacheList,
                   inst, act, fev, quota, page>>

\* the error is logged and not reported
WarmCatchOnlyLogs(k) ==
    /\ k \in 1..Len(msgs) /\ msgs[k].pc = "catch"
    /\ msgs' = [msgs EXCEPT ![k].pc = "done", ![k].logged = TRUE]
    /\ UNCHANGED <<phase, controller, skipWaitingFlag, cacheNames, cacheList,
                   inst, act, fev, quota, page>>

\* lines 145-148: the error is logged and reported on the port; without a
\* port the callback throws and the rejection is unhandled
WarmCatch(k) ==
    /\ k \in 1..Len(msgs) /\ msgs[k].pc = "catch"
    /\ msgs' = IF msgs[k].port
               THEN [msgs EXCEPT ![k].pc = "done", ![k].logged = TRUE,
                                 ![k].replies =
                                    Append(@, [success |-> FALSE, error |-> "message"])]
               ELSE [msgs EXCEPT ![k].pc = "done", ![k].logged = TRUE,
                                 ![k].unhandled = TRUE]
    /\ UNCHANGED <<phase, controller, skipWaitingFlag, cacheNames, cacheList,
                   inst, act, fev, quota, page>>

---------------------------------------------------------------------------
(* How long each listener keeps its event pending *)

\* line 23: waitUntil holds the install event until the chain settles
InstallEventPending == inst.promise = "pending"

\* line 41: waitUntil holds the activate event until the chain settles
ActivateEventPending == act.promise = "pending"

\* lines 64 and 94: respondWith holds the fetch event until the promise it
\* was given settles, which is when the response or the failure is handed
\* to the page
FetchEventPending(i) == fev[i].out = Pending

\* lines 131-150: the message listener calls no waitUntil, so the event is
\* complete when the listener returns
MessageEventPending(k) == FALSE

---------------------------------------------------------------------------
Next ==
    \/ InstallOpen
    \/ InstallAddAll
    \/ InstallThen
    \/ InstallCatch
    \/ InstallSettled
    \/ OldClientsClose
    \/ ActivateDispatch
    \/ ActivateKeys
    \/ \E n \in AllCacheNames : ActivateDelete(n)
    \/ ActivateAllRejected
    \/ ActivateThen
    \/ ActivateSettled
    \/ ClientLoads
    \/ \E request \in Requests : FetchDispatch(request)
    \/ \E i \in 1..Len(fev) : VideoOpen(i)
    \/ \E i \in 1..Len(fev) : VideoMatch(i)
    \/ \E i \in 1..Len(fev) : VideoFetch(i)
    \/ \E i \in 1..Len(fev) : GeneralMatch(i)
    \/ \E i \in 1..Len(fev) : GeneralFetch(i)
    \/ \E i \in 1..Len(fev) : GeneralCatch(i)
    \/ \E i \in 1..Len(fev) : GeneralFallback(i)
    \/ \E i \in 1..Len(fev) : BackgroundOpen(i)
    \/ \E i \in 1..Len(fev) : BackgroundPut(i)
    \/ \E m \in Messages : MessageDispatch(m)
    \/ \E k \in 1..Len(msgs) : WarmOpen(k)
    \/ \E k \in 1..Len(msgs) : WarmAddAll(k)
    \/ \E k \in 1..Len(msgs) : WarmThen(k)
    \/ \E k \in 1..Len(msgs) : WarmCatch(k)

Spec == Init /\ [][Next]_vars

\* The lifecycle and the message listener alone: the pages post messages
\* and issue no request.  The hosting environment does not leave a worker
\* waiting once it may activate it.
InitLive == Init /\ quota.fetch = 0

NextLive ==
    \/ InstallOpen
    \/ InstallAddAll
    \/ InstallThen
    \/ InstallCatch
    \/ InstallSettled
    \/ OldClientsClose
    \/ ActivateDispatch
    \/ ActivateKeys
    \/ \E n \in AllCacheNames : ActivateDelete(n)
    \/ ActivateAllRejected
    \/ ActivateThen
    \/ ActivateSettled
    \/ ClientLoads
    \/ \E m \in Messages : MessageDispatch(m)
    \/ \E k \in 1..Len(msgs) : WarmOpen(k)
    \/ \E k \in 1..Len(msgs) : WarmAddAll(k)
    \/ \E k \in 1..Len(msgs) : WarmThen(k)
    \/ \E k \in 1..Len(msgs) : WarmCatch(k)

SpecLive == InitLive /\ [][NextLive]_vars /\ WF_vars(ActivateDispatch)

---------------------------------------------------------------------------
(* An activated worker serving its pages: the same listeners, started from *)
(* states the lifecycle above reaches, with more events.                   *)

AllOk(paths) == [p \in SeqToSet(paths) |-> Answered(200)]

InstalledList(prior) == CachePutAll(prior, CRITICAL_ASSETS, AllOk(CRITICAL_ASSETS), "install")

\* What an activated worker may hold: the critical assets after a first
\* visit; an empty general partition after a first visit whose addAll
\* failed; the critical assets beside a stale partition whose deletion the
\* storage refused during an upgrade.
ActiveStorage ==
    { [names |-> <<CACHE_NAME>>,
       lists |-> [NoLists EXCEPT ![CACHE_NAME] = InstalledList(<<>>)],
       installed |-> TRUE, cleaned |-> TRUE, before |-> <<>>],
      [names |-> <<CACHE_NAME>>,
       lists |-> NoLists,
       installed |-> FALSE, cleaned |-> TRUE, before |-> <<>>],
      [names |-> <<STALE_CACHE_NAME, CACHE_NAME>>,
       lists |-> [NoLists EXCEPT
                    ![STALE_CACHE_NAME] = <<PriorEntry(<<"/", "index.html">>)>>,
                    ![CACHE_NAME] =
                        InstalledList(<<PriorEntry(<<"/", "index.html">>)>>)],
       installed |-> TRUE, cleaned |-> FALSE,
       before |-> <<PriorEntry(<<"/", "index.html">>)>>] }

InitActive ==
    /\ phase = "activated"
    /\ controller = "this"
    /\ \E s \in ActiveStorage :
          /\ cacheNames = s.names
          /\ cacheList = s.lists
          /\ skipWaitingFlag = s.installed
          /\ inst = [pc |-> "done", promise |-> "fulfilled",
                     failedAt |-> IF s.installed THEN "none" ELSE "addAll",
                     logged |-> ~s.installed, skipCalled |-> s.installed,
                     before |-> s.before]
          /\ act = [pc |-> "done",
                    promise |-> IF s.cleaned THEN "fulfilled" ELSE "rejected",
                    pending |-> {},
                    deleted |-> IF s.cleaned THEN {} ELSE {STALE_VIDEO_CACHE_NAME},
                    failed |-> ~s.cleaned, claimed |-> s.cleaned]
    /\ fev = <<>>
    /\ msgs = <<>>
    /\ quota \in Quotas(MaxEvents)
    /\ page = PageLoaded

NextActive ==
    \/ \E request \in Requests : FetchDispatch(request)
    \/ \E i \in 1..Len(fev) : VideoOpen(i)
    \/ \E i \in 1..Len(fev) : VideoMatch(i)
    \/ \E i \in 1..Len(fev) : VideoFetch(i)
    \/ \E i \in 1..Len(fev) : GeneralMatch(i)
    \/ \E i \in 1..Len(fev) : GeneralFetch(i)
    \/ \E i \in 1..Len(fev) : GeneralCatch(i)
    \/ \E i \in 1..Len(fev) : GeneralFallback(i)
    \/ \E i \in 1..Len(fev) : BackgroundOpen(i)
    \/ \E i \in 1..Len(fev) : BackgroundPut(i)
    \/ \E m \in Messages : MessageDispatch(m)
    \/ \E k \in 1..Len(msgs) : WarmOpen(k)
    \/ \E k \in 1..Len(msgs) : WarmAddAll(k)
    \/ \E k \in 1..Len(msgs) : WarmThen(k)
    \/ \E k \in 1..Len(msgs) : WarmCatch(k)

SpecActive == InitActive /\ [][NextActive]_vars

\* The initial states of SpecActive, but for the events still to come
ActiveStart ==
    /\ phase = "activated" /\ controller = "this"
    /\ fev = <<>> /\ msgs = <<>>
    /\ \E s \in ActiveStorage :
          /\ cacheNames = s.names
          /\ cacheList = s.lists
          /\ skipWaitingFlag = s.installed
          /\ inst = [pc |-> "done", promise |-> "fulfilled",
                     failedAt |-> IF s.installed THEN "none" ELSE "addAll",
                     logged |-> ~s.installed, skipCalled |-> s.installed,
                     before |-> s.before]
          /\ act = [pc |-> "done",
                    promise |-> IF s.cleaned THEN "fulfilled" ELSE "rejected",
                    pending |-> {},
                    deleted |-> IF s.cleaned THEN {} ELSE {STALE_VIDEO_CACHE_NAME},
                    failed |-> ~s.cleaned, claimed |-> s.cleaned]

---------------------------------------------------------------------------
(* The contact page in front of an activated worker that gets no event *)

InitPage ==
    /\ ActiveStart
    /\ cacheNames = <<CACHE_NAME>> /\ cacheList[CACHE_NAME] # <<>>
    /\ quota = [fetch |-> 0, msg |-> 0]
    /\ page = PageLoaded

NextPage ==
    \/ ToggleClick
    \/ \E target \in {"overlay", "inside"} : MenuClick(target)
    \/ \E key \in {"escape", "key"} : KeyDown(key)
    \/ LinkClick
    \/ \E f \in FieldNames, v \in FieldValues : EditField(f, v)
    \/ Submit
    \/ \E r \in 1..Len(page.reqs), outcome \in FormOutcomes : FormSettles(r, outcome)

SpecPage == InitPage /\ [][NextPage]_vars

---------------------------------------------------------------------------
(* Claims about the install and activate phases, checked under Spec *)

\* The hosting environment took the install phase for a success.
InstallReportedOk == phase \in {"installed", "activating", "activated"}

\* C1: if at install a critical asset cannot be fetched or stored, the
\* promise handed to waitUntil is not fulfilled, this generation never
\* becomes active and the previous generation keeps serving.
C1_InstallFailureIsReported ==
    inst.failedAt # "none" =>
        /\ inst.promise # "fulfilled"
        /\ phase \notin {"activating", "activated"}
        /\ controller # "this"

\* C2: after an install phase that completed successfully, a lookup in the
\* general partition finds, for every critical asset, a response of
\* status 200.
C2_CriticalAssetsCached ==
    InstallReportedOk =>
        \A k \in 1..Len(CRITICAL_ASSETS) :
            LET r == CacheMatch(cacheList[CACHE_NAME], KeyOfPath(CRITICAL_ASSETS[k]))
            IN  r # Undefined /\ r.status = 200

\* One step of the activate listener or of a deletion it started
ActivateStep ==
    \/ ActivateKeys
    \/ \E n \in AllCacheNames : ActivateDelete(n)
    \/ ActivateAllRejected
    \/ ActivateThen
    \/ ActivateSettled

\* Whether a partition exists, and what it holds
Partition(name) ==
    [exists |-> HasCache(cacheNames, name), list |-> cacheList[name]]

Entries(name) == SeqToSet(cacheList[name])

\* C7: every response stored in the general or media partition, whether by
\* install, by a fetch listener or by the warm command, has status 200.
C7_OnlyStatus200Stored ==
    \A n \in {CACHE_NAME, VIDEO_CACHE_NAME} :
        \A e \in Entries(n) : e.resp.status = 200

\* C8: when the install fails, the general partition holds no entry added
\* by this install, and until the worker is activated it is exactly what it
\* was before the install.
C8_NoPartialInstall ==
    inst.failedAt # "none" =>
        /\ \A e \in Entries(CACHE_NAME) : e.by # "install"
        /\ phase \in {"installing", "installed"} =>
              cacheList[CACHE_NAME] = inst.before

\* An install whose addAll failed over the partition of the previous
\* generation, which still serves
C8_Witness ==
    /\ inst.failedAt = "addAll" /\ phase = "installed"
    /\ inst.before # <<>> /\ controller = "prev"

\* The stale partitions that still exist
StaleLeft == {n \in SeqToSet(cacheNames) : IsStaleName(n)}

\* C22: the activate listener calls clients.claim() only at a step before
\* which every deletion it started has succeeded and no stale partition is
\* left; an activation in which a deletion failed never claims.
C22_ClaimAfterDeletions ==
    /\ [][(act'.claimed /\ ~act.claimed) =>
              /\ act.pending = {} /\ ~act.failed
              /\ StaleLeft = {}]_vars
    /\ [](act.failed => ~act.claimed)
    /\ [](act.claimed => act.pending = {} /\ StaleLeft = {})

\* An activation that claimed after deleting both stale partitions
C22_Witness ==
    /\ act.claimed /\ controller = "this"
    /\ act.deleted = {STALE_CACHE_NAME, STALE_VIDEO_CACHE_NAME}
    /\ StaleLeft = {}

\* The partitions a step destroys
Destroyed ==
    {n \in AllCacheNames : HasCache(cacheNames, n) /\ ~HasCache(cacheNames', n)}

\* C23: a partition is destroyed only by a deletion the activate listener
\* started, of a stale partition, when this generation is being or has
\* been activated and the previous generation controls no client; no other
\* step empties a partition.
C23_DestroyedOnlyAtActivation ==
    /\ [][\A n \in Destroyed :
              /\ IsStaleName(n) /\ n \in act.pending
              /\ act'.deleted = act.deleted \cup {n}
              /\ phase \in {"activating", "activated"}
              /\ controller # "prev"]_vars
    /\ [][\A n \in AllCacheNames :
              (cacheList[n] # <<>> /\ cacheList'[n] = <<>>) => n \in Destroyed]_vars

\* The first stale partition deleted during the activation, after the
\* clients of the previous generation were handed over
C23_Witness ==
    /\ phase = "activating" /\ controller = "this" /\ ~act.claimed
    /\ act.deleted = {STALE_CACHE_NAME}
    /\ ~HasCache(cacheNames, STALE_CACHE_NAME)
    /\ HasCache(cacheNames, STALE_VIDEO_CACHE_NAME)

\* The install listener's chain has run to its end.
InstallChainEnded == inst.pc \in {"settled", "done"}

\* Every critical asset has an entry in the general partition.
AllCriticalStored ==
    \A k \in 1..Len(CRITICAL_ASSETS) :
        CacheMatch(cacheList[CACHE_NAME], KeyOfPath(CRITICAL_ASSETS[k])) # Undefined

\* C24: the install listener has called skipWaiting exactly when its chain
\* has ended without a failure, and then every critical asset is stored;
\* the call sets the skip-waiting flag.
C24_SkipWaitingIffStored ==
    /\ [](inst.skipCalled <=> (InstallChainEnded /\ inst.failedAt = "none"))
    /\ [](inst.skipCalled => AllCriticalStored /\ skipWaitingFlag)
    /\ [][(inst'.skipCalled /\ ~inst.skipCalled) =>
              /\ inst.pc = "then" /\ AllCriticalStored
              /\ skipWaitingFlag']_vars

\* A worker that cached everything and called skipWaiting while the
\* previous generation still has clients
C24_Witness ==
    /\ inst.skipCalled /\ phase = "installed" /\ controller = "prev"
    /\ AllCriticalStored /\ skipWaitingFlag

\* The keys a partition holds
KeysOf(list) == {list[a].req : a \in 1..Len(list)}

\* C27: no step removes a key from the general or the media partition or
\* destroys either of them, and once /index.html is in the general
\* partition the fallback lookup keeps finding a response.
C27_CurrentPartitionsOnlyGrow ==
    /\ [][\A n \in {CACHE_NAME, VIDEO_CACHE_NAME} :
              /\ KeysOf(cacheList[n]) \subseteq KeysOf(cacheList'[n])
              /\ HasCache(cacheNames, n) => HasCache(cacheNames', n)]_vars
    /\ [][KeyOfPath(<<"/", "index.html">>) \in KeysOf(cacheList[CACHE_NAME]) =>
              FallbackLookup(cacheNames', cacheList') # Undefined]_vars

\* After an activation that deleted stale partitions and a fetch that
\* stored its copy, the general partition holds the critical assets and
\* more
C27_Witness ==
    /\ phase = "activated" /\ act.deleted # {}
    /\ AllCriticalStored
    /\ \E i \in 1..Len(fev) : fev[i].branch = "general" /\ fev[i].bg = "stored"
    /\ Len(cacheList[CACHE_NAME]) > Len(CRITICAL_ASSETS)

---------------------------------------------------------------------------
(* Claims about the fetch and message listeners, checked under SpecActive *)

SameRequest(i, j) == fev[i].req = fev[j].req

\* All the asynchronous work of fetch event i has settled.
Settled(i) == fev[i].pc = "done" /\ fev[i].bg \notin {"open", "put"}

\* The network answered the fetch of event i with status 200.
Fetched200(i) ==
    fev[i].nfetch = 1 /\ ~fev[i].net.rejected /\ fev[i].net.status = 200

\* No warm command was sent: only fetch events fill the media partition.
NoWarm == \A k \in 1..Len(msgs) : msgs[k].type # "CACHE_VIDEO"

\* Event j is the first for its request / follows an answered identical one.
IsFirst(j) == \A i \in 1..(j - 1) : ~SameRequest(i, j)
IsLater(j) == \E i \in fev[j].answeredBefore : SameRequest(i, j)

InSomePartition(key) ==
    \E n \in AllCacheNames : CacheMatch(cacheList[n], key) # Undefined

IndexKey == KeyOfPath(<<"/", "index.html">>)

\* C6: a document request of the general branch that misses and whose fetch
\* rejects, with /index.html in the general partition since before the
\* request, is answered with exactly that cached response.
C6_FallbackIsGeneralIndex ==
    \A i \in 1..Len(fev) :
        ( /\ fev[i].branch = "general" /\ WantsFallback(fev[i].req)
          /\ fev[i].lookup = "miss" /\ fev[i].pc = "done"
          /\ fev[i].nfetch = 1 /\ fev[i].net.rejected
          /\ \E e \in Entries(CACHE_NAME) : e.req = IndexKey /\ e.by # "fetch" )
        => fev[i].out = CacheMatch(cacheList[CACHE_NAME], IndexKey)

\* What one warm command leaves in an empty media partition
WarmedOnce ==
    { CachePutAll(<<>>, VIDEO_ASSETS, o, "warm") :
        o \in {x \in AddAllOutcomes(VIDEO_ASSETS) : AddAllAccepts(VIDEO_ASSETS, x)} }

\* C9: however many warm commands have succeeded, the media partition is
\* what a single one leaves: one entry per VIDEO_ASSETS path, none twice.
C9_WarmIdempotent ==
    ( /\ \E k \in 1..Len(msgs) : msgs[k].added
      /\ \A i \in 1..Len(fev) : fev[i].branch # "video" )
    => cacheList[VIDEO_CACHE_NAME] \in WarmedOnce

\* Two warm commands in succession, both successful
C9_Witness ==
    /\ Len(msgs) >= 2
    /\ msgs[1].added /\ msgs[1].pc = "done"
    /\ msgs[2].added /\ msgs[2].pc = "done"
    /\ cacheList[VIDEO_CACHE_NAME] \in WarmedOnce

\* C10: a CACHE_VIDEO message with a reply port gets exactly one reply,
\* {success: true} exactly when every VIDEO_ASSETS entry was fetched and
\* stored, {success: false, error} otherwise.
C10_ExactlyOneReply ==
    \A k \in 1..Len(msgs) :
        (msgs[k].type = "CACHE_VIDEO" /\ msgs[k].port) =>
            /\ Len(msgs[k].replies) <= 1
            /\ msgs[k].pc = "done" => Len(msgs[k].replies) = 1
            /\ Len(msgs[k].replies) = 1 =>
                  /\ msgs[k].replies[1].success = msgs[k].added
                  /\ msgs[k].replies[1].success =>
                        /\ DOMAIN msgs[k].replies[1] = {"success"}
                        /\ \A a \in 1..Len(VIDEO_ASSETS) :
                              CacheMatch(cacheList[VIDEO_CACHE_NAME],
                                         KeyOfPath(VIDEO_ASSETS[a])) # Undefined
                  /\ ~msgs[k].replies[1].success =>
                        DOMAIN msgs[k].replies[1] = {"success", "error"}

\* One warm command answered with success and one with failure
C10_Witness ==
    \E k, l \in 1..Len(msgs) :
        /\ msgs[k].port /\ msgs[k].pc = "done" /\ msgs[k].added
        /\ msgs[k].replies = <<[success |-> TRUE]>>
        /\ msgs[l].port /\ msgs[l].pc = "done" /\ ~msgs[l].added
        /\ Len(msgs[l].replies) = 1 /\ ~msgs[l].replies[1].success

\* The network rejected the fetch of event i.
FetchRejected(i) == fev[i].nfetch = 1 /\ fev[i].net.rejected

\* The network answered the fetch of event i, with any status.
FetchAnswered(i) == fev[i].nfetch = 1 /\ ~fev[i].net.rejected

IndexCached == CacheMatch(cacheList[CACHE_NAME], IndexKey) # Undefined

\* C15: when a media request that missed has been answered with the 200
\* response of the network, the media partition holds the entry.
C15_StoreThenReturn ==
    \A i \in 1..Len(fev) :
        (fev[i].branch = "video" /\ fev[i].lookup = "miss" /\ Fetched200(i)
           /\ fev[i].out # Pending) =>
            CacheMatch(cacheList[VIDEO_CACHE_NAME], KeyOf(fev[i].req)) # Undefined

\* C16: when the store that followed a successful fetch has failed, on
\* either path, the page has the network response and the failure was
\* logged.
C16_StoreFailureLogged ==
    \A i \in 1..Len(fev) :
        fev[i].bg = "failed" =>
            /\ fev[i].out = Response(fev[i].net.status, KeyOf(fev[i].req))
            /\ fev[i].logged

\* C17: a media request that missed and whose fetch rejected is answered
\* with the failure; nothing is stored and no fallback is looked up.
C17_MediaFailurePropagates ==
    \A i \in 1..Len(fev) :
        (fev[i].branch = "video" /\ fev[i].lookup = "miss" /\ FetchRejected(i)) =>
            /\ fev[i].pc = "done" /\ fev[i].out = Failure
            /\ fev[i].nput = 0 /\ fev[i].bg = "none"

\* The video opened as a document while offline, with /index.html cached
C17_Witness ==
    \E i \in 1..Len(fev) :
        /\ fev[i].req = Request(LocationOrigin, VIDEO_ASSETS[1], "document")
        /\ fev[i].branch = "video" /\ FetchRejected(i)
        /\ fev[i].out = Failure /\ IndexCached

\* C18: a general request that missed, whose fetch rejected and whose
\* destination is not a document never looks the offline document up and
\* is answered with the failure.
C18_NonDocumentFailurePropagates ==
    \A i \in 1..Len(fev) :
        (fev[i].branch = "general" /\ fev[i].lookup = "miss" /\ FetchRejected(i)
           /\ fev[i].req.destination # "document") =>
            /\ fev[i].pc \in {"gcatch", "done"}
            /\ fev[i].pc = "done" => fev[i].out = Failure

\* A script whose fetch rejected, with /index.html cached
C18_Witness ==
    \E i \in 1..Len(fev) :
        /\ fev[i].branch = "general" /\ fev[i].req.destination = "script"
        /\ FetchRejected(i) /\ fev[i].pc = "done" /\ fev[i].out = Failure
        /\ IndexCached

\* C19: a general request that missed and was answered with a status
\* other than 200 hands that response to the page, starts no store and
\* looks no fallback up; no entry stored by a fetch listener has another
\* status than 200.
C19_Non200ReturnedUnchanged ==
    /\ \A i \in 1..Len(fev) :
          (fev[i].branch = "general" /\ fev[i].lookup = "miss" /\ FetchAnswered(i)
             /\ fev[i].net.status # 200) =>
              /\ fev[i].pc = "done"
              /\ fev[i].out = Response(fev[i].net.status, KeyOf(fev[i].req))
              /\ fev[i].nput = 0 /\ fev[i].bg = "none"
    /\ \A n \in AllCacheNames : \A e \in Entries(n) :
          e.by = "fetch" => e.resp.status = 200

\* A navigation answered 404 while /index.html is cached and the page
\* itself is in no partition
C19_Witness ==
    \E i \in 1..Len(fev) :
        /\ fev[i].branch = "general" /\ fev[i].req.destination = "document"
        /\ FetchAnswered(i) /\ fev[i].net.status = 404
        /\ fev[i].out = Response(404, KeyOf(fev[i].req))
        /\ IndexCached /\ ~InSomePartition(KeyOf(fev[i].req))

\* The final path segment of the request is that of a VIDEO_ASSETS entry.
IsMediaAsset(path) ==
    \E k \in 1..Len(VIDEO_ASSETS) : LastSegment(path) = LastSegment(VIDEO_ASSETS[k])

\* C20: every request is handled by exactly one branch, the media branch
\* exactly when its final path segment is that of a VIDEO_ASSETS entry, and
\* is answered at most once, by that branch.
C20_ClassifiedByFinalSegment ==
    \A i \in 1..Len(fev) :
        /\ fev[i].branch \in {"video", "general"}
        /\ fev[i].branch = "video" <=> IsMediaAsset(fev[i].req.path)
        /\ fev[i].branch = "video" =>
              fev[i].pc \in {"vopen", "vmatch", "vfetch", "done"}
        /\ fev[i].branch = "general" =>
              fev[i].pc \in {"gmatch", "gfetch", "gcatch", "gfallback", "done"}
        /\ fev[i].out # Pending <=> fev[i].pc = "done"

\* The positions of a partition's list that are filed under a key
PositionsOf(name, key) ==
    {a \in 1..Len(cacheList[name]) : cacheList[name][a].req = key}

\* C21: no partition ever holds two entries for one key; when two events
\* for the same request have both missed, fetched and stored, their
\* partition holds exactly one entry for the key, an intact response to
\* that request, and the 200 response if a fetch listener wrote it.
C21_ConcurrentStoresLeaveOneEntry ==
    /\ \A n \in AllCacheNames : \A e \in Entries(n) :
          Cardinality(PositionsOf(n, e.req)) = 1
    /\ \A i, j \in 1..Len(fev) :
          ( /\ i # j /\ SameRequest(i, j)
            /\ fev[i].lookup = "miss" /\ fev[j].lookup = "miss"
            /\ fev[i].bg = "stored" /\ fev[j].bg = "stored" ) =>
          LET n == StoreTarget(fev[i].branch)
              key == KeyOf(fev[i].req)
          IN  /\ Cardinality(PositionsOf(n, key)) = 1
              /\ \A e \in Entries(n) :
                    e.req = key =>
                        /\ e.resp.kind = "response" /\ e.resp.url = key
                        /\ e.by = "fetch" => e.resp = Response(200, key)

\* Two interleaved events for the same uncached request that both missed,
\* both fetched and both stored
C21_Witness ==
    \E i, j \in 1..Len(fev) :
        /\ i < j /\ SameRequest(i, j) /\ fev[j].answeredBefore = {}
        /\ fev[i].lookup = "miss" /\ fev[j].lookup = "miss"
        /\ fev[i].nfetch = 1 /\ fev[j].nfetch = 1
        /\ fev[i].bg = "stored" /\ fev[j].bg = "stored"
        /\ Cardinality(PositionsOf(StoreTarget(fev[i].branch), KeyOf(fev[i].req))) = 1

\* Event i is a navigation of the general branch that missed and whose
\* fetch rejected.
OfflineNavigation(i) ==
    /\ fev[i].branch = "general" /\ fev[i].req.destination = "document"
    /\ fev[i].lookup = "miss" /\ FetchRejected(i)

\* C25: an offline navigation is never answered with the failure; when
\* /index.html is in no partition it is answered with the empty result of
\* the fallback lookup.
C25_EmptyFallbackReturned ==
    /\ [](\A i \in 1..Len(fev) :
            (OfflineNavigation(i) /\ fev[i].pc = "done") =>
                /\ fev[i].out # Failure
                /\ ~InSomePartition(IndexKey) => fev[i].out = Undefined)
    /\ [][\A i \in 1..Len(fev) :
            (OfflineNavigation(i) /\ fev[i].pc = "gfallback" /\ fev'[i].pc = "done"
               /\ ~InSomePartition(IndexKey)) => fev'[i].out = Undefined]_vars

\* An offline navigation answered with nothing, /index.html being nowhere
C25_Witness ==
    \E i \in 1..Len(fev) :
        /\ OfflineNavigation(i) /\ fev[i].pc = "done"
        /\ fev[i].out = Undefined /\ fev[i].logged
        /\ ~InSomePartition(IndexKey)

InPartition(name, key) == CacheMatch(cacheList[name], key) # Undefined

\* C26: no key is in both the general and the media partition; a media
\* asset is looked up and stored in the media partition only; the key of a
\* general asset is never in the media partition, so that it is neither
\* stored there nor answered from there.
C26_PartitionIsolation ==
    /\ \A e \in Entries(CACHE_NAME) : ~InPartition(VIDEO_CACHE_NAME, e.req)
    /\ \A i \in 1..Len(fev) :
          IF IsMediaAsset(fev[i].req.path)
          THEN /\ fev[i].branch = "video"
               /\ ~InPartition(CACHE_NAME, KeyOf(fev[i].req))
          ELSE ~InPartition(VIDEO_CACHE_NAME, KeyOf(fev[i].req))

---------------------------------------------------------------------------
(* Claims about the message listener and the lifecycle, under SpecLive *)

SkipWaitingReceived == \E k \in 1..Len(msgs) : msgs[k].type = "SKIP_WAITING"

\* C11: a SKIP_WAITING message sets the skip-waiting flag, so that a worker
\* that is installed and waiting is activated without waiting for the old
\* clients; no message of another type sets the flag.
C11_SkipWaitingActivates ==
    /\ [](SkipWaitingReceived => skipWaitingFlag)
    /\ [][(msgs' # msgs /\ skipWaitingFlag' # skipWaitingFlag) =>
              msgs'[Len(msgs')].type = "SKIP_WAITING"]_vars
    /\ (phase = "installed" /\ SkipWaitingReceived)
          ~> (phase \in {"activating", "activated"})

\* A worker whose install did not call skipWaiting, activated over the
\* clients of the previous generation after the message
C11_Witness ==
    /\ inst.failedAt # "none" /\ SkipWaitingReceived
    /\ phase = "activating" /\ act.pc = "keys" /\ controller = "this"

\* The asynchronous work each listener started and that has not resolved
InstallWorking == inst.pc \in {"open", "addAll", "then", "catch"}
ActivateWorking == act.pc \in {"keys", "all"} \/ act.pending # {}
FetchWorking(i) ==
    \/ fev[i].pc # "done"
    \/ fev[i].bg \in {"open", "put"}
MessageWorking(k) == msgs[k].pc \in {"open", "addAll", "then", "catch"}

\* C12: each of the four listeners keeps its event pending while any cache
\* open, fetch, store, deletion or reply it started has not resolved.
C12_PendingUntilWorkResolved ==
    /\ InstallWorking => InstallEventPending
    /\ ActivateWorking => ActivateEventPending
    /\ \A i \in 1..Len(fev) : FetchWorking(i) => FetchEventPending(i)
    /\ \A k \in 1..Len(msgs) : MessageWorking(k) => MessageEventPending(k)

\* The responses filed under a key in some partition
CachedResponses(key) ==
    {e.resp : e \in {x \in UNION {Entries(n) : n \in AllCacheNames} : x.req = key}}

\* C13: a request of either class fetches from the network only after its
\* cache lookup has completed with a miss; a request whose lookup hits
\* makes no fetch and is answered, at that step, with the cached response.
C13_LookupBeforeFetch ==
    /\ [](\A i \in 1..Len(fev) :
            /\ fev[i].nfetch > 0 => fev[i].lookup = "miss"
            /\ fev[i].net # NotFetched => fev[i].lookup = "miss"
            /\ fev[i].lookup = "hit" =>
                  fev[i].nfetch = 0 /\ fev[i].out.kind = "response")
    /\ [][\A i \in 1..Len(fev) :
            (fev[i].lookup = "pending" /\ fev'[i].lookup = "hit") =>
                /\ fev'[i].pc = "done"
                /\ fev'[i].out \in CachedResponses(KeyOf(fev[i].req))]_vars

\* One request answered from the cache without a fetch, and one that
\* fetched after its miss
C13_Witness ==
    \E i, j \in 1..Len(fev) :
        /\ fev[i].lookup = "hit" /\ fev[i].pc = "done" /\ fev[i].nfetch = 0
        /\ fev[j].lookup = "miss" /\ fev[j].nfetch = 1 /\ fev[j].branch = "video"

---------------------------------------------------------------------------
(* Claims about the contact page, checked under SpecPage *)

SomeFieldEmpty == \E f \in FieldNames : page.fields[f] = ""

\* C14: a submit with the name, the email or the message empty sends no
\* request and leaves the button's label and enabled state as they were; a
\* request is sent only by a submit with all three non-empty, and carries
\* them.
C14_InvalidSubmitSendsNothing ==
    /\ [][(page'.submits # page.submits /\ SomeFieldEmpty) =>
              /\ page'.reqs = page.reqs
              /\ page'.label = page.label
              /\ page'.disabled = page.disabled]_vars
    /\ [][Len(page'.reqs) > Len(page.reqs) =>
              /\ page'.submits = page.submits + 1
              /\ ~SomeFieldEmpty
              /\ page'.reqs[Len(page'.reqs)].body = page.fields]_vars

\* A submit with an empty field made while an earlier request is in flight:
\* the button is still in its loading state and no second request exists
C14_Witness ==
    /\ page.submits = 2 /\ page.alerts = 1 /\ SomeFieldEmpty
    /\ Len(page.reqs) = 1 /\ page.reqs[1].pc = "fetch"
    /\ page.label = SendingLabel /\ page.disabled


\* the events that close the menu whenever their listener acts
ClosingEvents == {"overlay", "escape", "link"}

\* C28 as stated: the toggle and the menu carry "active" together, the
\* overflow is "hidden" exactly while the menu is active and "auto" otherwise
\* once a toggle click, overlay click, Escape press or link click has
\* occurred, and an overlay click, Escape press or link click leaves the
\* menu closed.
C28_OverflowAutoAfterAnyEvent ==
    /\ page.navToggle <=> page.navMenu
    /\ (page.overflow = "hidden") <=> page.navMenu
    /\ (page.navEvent /\ ~page.navMenu) => page.overflow = "auto"
    /\ page.lastNav \in ClosingEvents => ~page.navMenu

\* C28, amended: the toggle and the menu carry "active" together, the
\* overflow is "hidden" exactly while the menu is active and, once a toggle
\* click, overlay click, link click or an Escape press with the menu open
\* has occurred, "auto" otherwise (until then it keeps the value the page
\* was loaded with); an overlay click, Escape press or link click leaves the
\* menu closed.
C28_NavConsistent ==
    /\ page.overflow \in OverflowValues
    /\ page.lastNav \in NavEvents \cup {"none"}
    /\ page.navToggle <=> page.navMenu
    /\ (page.overflow = "hidden") <=> page.navMenu
    /\ ~page.navMenu =>
          page.overflow = (IF page.navActed THEN "auto" ELSE OverflowUnset)
    /\ page.lastNav \in ClosingEvents => ~page.navMenu

\* The menu was opened by the toggle and closed by Escape: both classes are
\* gone and the body scrolls again
C28_Witness ==
    /\ page.lastNav = "escape" /\ page.navActed
    /\ ~page.navMenu /\ ~page.navToggle /\ page.overflow = "auto"

InFlight == \E r \in 1..Len(page.reqs) : page.reqs[r].pc = "fetch"
AllSettled == page.reqs # <<>> /\ ~InFlight

\* C29: while a request of a valid submission is in flight the button is
\* disabled and shows the loading label, and once every request has settled,
\* whatever the outcomes and also when a second submission started while the
\* first was in flight, the button is enabled and shows its original label.
C29_ButtonRestoredAfterSettle ==
    /\ InFlight => (page.disabled /\ page.label = SendingLabel)
    /\ AllSettled => (~page.disabled /\ page.label = OriginalLabel)
=============================================================================
